---- MODULE Spec2Model ----
(***************************************************************************)
(* Tenant resolution, tenant cache and request-scoping middleware of       *)
(* django-site-multitenancy.                                               *)
(*                                                                         *)
(* Strings are sequences of one-character strings, so that lower-casing,   *)
(* port stripping and URL building are computed and not assumed.           *)
(*                                                                         *)
(* The store is the three tables the code reads and writes: the Site rows  *)
(* (canonical domain), the Tenant rows (one-to-one with a Site) and the    *)
(* SiteAlias rows.  The middleware of middleware.py queries "Site" objects *)
(* that carry domain, preferred_domain and the aliases themselves          *)
(* (models/site.py); here they are the Tenant rows joined with their Site. *)
(*                                                                         *)
(* Downstream of the middleware the model has the readers of the current   *)
(* tenant: the context processor, the tenant-scoped manager and clean() of *)
(* tenant-owned entities, and the group permissions of the auth backend.   *)
(***************************************************************************)
EXTENDS Integers, Sequences, FiniteSets, TLC

VARIABLES sites, tenants, aliases, nextPk, TENANT_CACHE, request, response,
          stuff, instance, groups, result,
          user, memberships, resolver, updates

\* the tenant-owned entities, their groups, and what the code downstream of the
\* middleware last read
appvars == <<stuff, instance, groups, result>>

\* one user and its memberships, and the calls that are under way: a lookup
\* of the tenant cache and the edits of tenants
procvars == <<user, memberships, resolver, updates>>

vars == <<sites, tenants, aliases, nextPk, TENANT_CACHE, request, response,
          stuff, instance, groups, result,
          user, memberships, resolver, updates>>

----------------------------------------------------------------------------
(* Bounds *)

\* number of Site/Tenant rows ever inserted
MaxSites == 2
\* number of SiteAlias rows in the table
MaxAliases == 2

----------------------------------------------------------------------------
(* Strings *)

EmptyStr == << >>

\* Python's None where a string is expected (no string has this element)
None == <<"None">>

\* a request without Host header: 'HTTP_HOST' not in request.META
NoHost == <<"NoHost">>

DomA == <<"a", ".", "c">>
DomAUp == <<"A", ".", "c">>
DomB == <<"b", ".", "c">>
DomBUp == <<"B", ".", "c">>
DomC == <<"c", ".", "c">>

Port8 == <<":", "8">>
Dot == <<".">>

\* the domain strings given to the store operations of the resolution model
Domains == {DomA, DomB, DomC}

\* a domain name that is not well formed (a label that starts with a hyphen)
DomBad == <<"-", ".", "c">>

\* the domain strings given to create_site and create_root_site in the store
\* model, and the values given to preferred_domain
CreateDomains == Domains \cup {EmptyStr, DomBad}
PreferredDomains == Domains \cup {None, EmptyStr}

\* the Host headers resolved: a domain, its case variant, each with and without
\* a port, and the domain with a trailing dot, with and without a port
Hosts == {DomA, DomAUp, DomA \o Port8, DomAUp \o Port8, DomA \o Dot, DomA \o Dot \o Port8}

\* the scheme prefix of a redirect
Https == <<"h", "t", "t", "p", "s", ":", "/", "/">>

\* request paths: the administrative path and another one
AdminPath == <<"/", "a", "d", "m", "i", "n", "/">>
OtherPath == <<"/", "x", "/">>
Paths == {AdminPath, OtherPath}

\* request.GET: keys in order, each with its list of values
NoQuery == << >>
SomeQuery == << <<(<<"k">>), << <<"a", " ", "&">>, <<"b">> >> >>, <<(<<"j", "=">>), << <<"c">> >> >> >>
Queries == {NoQuery, SomeQuery}

\* the domain strings of the middleware model: canonical domains, alias
\* domains, preferred domains, and the Host headers sent
MwCanonical == {DomA, DomB}
MwAliases == {DomB, DomBUp}
MwPreferred == {None, EmptyStr, DomB, DomBUp}
MwHosts == {DomA, DomB \o Port8, DomBUp, DomC}

\* no row (an absent alias of the outer join)
NULL == << >>

\* no tenant (primary keys start at 1)
NoTenant == 0

\* str.lower() on one character
LowerChar(c) ==
  CASE c = "A" -> "a"
    [] c = "B" -> "b"
    [] c = "C" -> "c"
    [] OTHER -> c

\* str.lower()
Lower(s) == [i \in 1..Len(s) |-> LowerChar(s[i])]

\* the iexact lookup: equality up to letter case
IExact(a, b) == Lower(a) = Lower(b)

\* ':' in host
HasColon(s) == \E i \in 1..Len(s) : s[i] = ":"

\* number of ':' in s
RECURSIVE CountColons(_)
CountColons(s) ==
  IF s = << >> THEN 0
  ELSE (IF Head(s) = ":" THEN 1 ELSE 0) + CountColons(Tail(s))

\* index of the last ':' of s (0 when there is none)
LastColon(s) ==
  IF HasColon(s) THEN CHOOSE i \in 1..Len(s) : s[i] = ":" /\ \A j \in (i+1)..Len(s) : s[j] # ":"
  ELSE 0

IsDigit(c) == c \in {"0", "1", "2", "3", "4", "5", "6", "7", "8", "9"}

IsHostChar(c) == c \in {"a", "b", "c", "0", "8", ".", "-"}

\* host_validation_re on an already lower-cased host: [a-z0-9.-]+(:[0-9]+)?
HostValid(h) ==
  LET k == LastColon(h)
      dom == IF k = 0 THEN h ELSE SubSeq(h, 1, k - 1)
      prt == IF k = 0 THEN << >> ELSE SubSeq(h, k + 1, Len(h))
  IN /\ dom # << >>
     /\ \A i \in 1..Len(dom) : IsHostChar(dom[i])
     /\ k # 0 => (prt # << >> /\ \A i \in 1..Len(prt) : IsDigit(prt[i]))

\* django.http.request.split_domain_port: the domain part, lower-cased, without
\* the port and without a trailing dot; empty when the host is not valid
split_domain_port(host) ==
  LET h == Lower(host)
      k == LastColon(h)
      dom == IF k = 0 THEN h ELSE SubSeq(h, 1, k - 1)
  IN IF ~HostValid(h) THEN EmptyStr
     ELSE IF dom[Len(dom)] = "." THEN SubSeq(dom, 1, Len(dom) - 1)
     ELSE dom

----------------------------------------------------------------------------
(* The store *)

SiteOf(t) == CHOOSE s \in sites : s.pk = t.site

\* tenant.site.domain
TenantDomain(t) == SiteOf(t).domain

TenantPks == {t.pk : t \in tenants}

TenantByPk(pk) == CHOOSE t \in tenants : t.pk = pk

AliasesOf(t) == {a \in aliases : a.tenant = t.pk}

\* public_domain that ignores the preferred domain
public_domain_canonical(t) == TenantDomain(t)

\* public_domain that ignores the canonical domain
public_domain_preferred(t) == t.preferred_domain

\* Tenant.public_domain: self.preferred_domain or self.site.domain; None and
\* the empty string are both false
public_domain(t) ==
  IF t.preferred_domain # None /\ t.preferred_domain # EmptyStr
  THEN t.preferred_domain
  ELSE TenantDomain(t)

NoRequest == [op |-> "none", host |-> EmptyStr, path |-> EmptyStr, secure |-> FALSE, GET |-> << >>]

NoResponse == [status |-> "none", kind |-> "none", tenant |-> NoTenant, url |-> EmptyStr,
               path |-> EmptyStr]

\* no entity under validation
NoInstance == [state |-> "none", tenant_id |-> NoTenant]

\* nothing read yet
NoResult == [op |-> "none", status |-> "none", tenant |-> NoTenant, rows |-> {}, perms |-> {},
             value |-> FALSE, hit |-> FALSE]

\* no group, no membership
NoGroups == [user_groups |-> {}, tenant_groups |-> {}]

\* a user as created: _is_active defaults to True, _is_staff and is_superuser
\* to False; nothing is cached on the object
NewUser == [_is_active |-> TRUE, _is_staff |-> FALSE, is_superuser |-> FALSE, perm_cache |-> << >>]

\* no lookup of the tenant cache under way
NoResolver == [pc |-> "idle", kind |-> "none", key |-> << >>, old |-> NoTenant,
               fetched |-> NoTenant, tenant |-> NoTenant, status |-> "none"]

\* the threads that edit tenants, and a thread that edits none
Procs == {1, 2}
NoUpdate == [pc |-> "idle", pk |-> NoTenant, status |-> "none"]

EmptyCache == [pk |-> << >>, domain |-> << >>]

Init ==
  /\ sites = {}
  /\ tenants = {}
  /\ aliases = {}
  /\ nextPk = [site |-> 1, tenant |-> 1]
  /\ TENANT_CACHE = EmptyCache
  /\ request = NoRequest
  /\ response = NoResponse
  /\ stuff = {}
  /\ instance = NoInstance
  /\ groups = NoGroups
  /\ result = NoResult
  /\ user = NewUser
  /\ memberships = {}
  /\ resolver = NoResolver
  /\ updates = [p \in Procs |-> NoUpdate]


----------------------------------------------------------------------------
(* Cache eviction *)

\* dict without the key k
DelKey(f, k) == [x \in (DOMAIN f) \ {k} |-> f[x]]

\* clear_tenant_cache(instance=<row with primary key pk>): the entry under the
\* primary key is deleted; the second deletion reads Tenant.objects.get(pk=pk).domain,
\* and Tenant has no attribute "domain": when a Tenant with that primary key
\* exists the handler raises AttributeError, which neither except clause catches;
\* when none exists Tenant.DoesNotExist is swallowed.  No domain key is deleted.
clear_tenant_cache(pk) ==
  [cache |-> [TENANT_CACHE EXCEPT !.pk = DelKey(@, pk)],
   raised |-> pk \in TenantPks]

----------------------------------------------------------------------------
(* Store operations *)

Done(op, status) ==
  /\ request' = [NoRequest EXCEPT !.op = op]
  /\ response' = [NoResponse EXCEPT !.status = status]
  /\ UNCHANGED <<appvars, procvars>>

\* TenantManager._create_site(domain, site_name, is_root_site=is_root).
\* site.save() sends pre_save for a Site without primary key (the handler finds
\* nothing to delete), then inserts under the unique constraint of Site.domain;
\* tenant.save() inserts the Tenant with the default of preferred_domain, None.
\* No validator and no clean_fields runs.
_create_site(domain, is_root, op) ==
  /\ nextPk.site <= MaxSites
  /\ IF domain = EmptyStr
     THEN /\ Done(op, "ValueError")
          /\ UNCHANGED <<sites, tenants, aliases, nextPk, TENANT_CACHE>>
     ELSE IF \E s \in sites : s.domain = domain
     THEN /\ Done(op, "IntegrityError")
          /\ UNCHANGED <<sites, tenants, aliases, nextPk, TENANT_CACHE>>
     ELSE /\ sites' = sites \cup {[pk |-> nextPk.site, domain |-> domain]}
          /\ tenants' = tenants \cup {[pk |-> nextPk.tenant, site |-> nextPk.site,
                                       preferred_domain |-> None, is_root_site |-> is_root]}
          /\ nextPk' = [nextPk EXCEPT !.site = @ + 1, !.tenant = @ + 1]
          /\ Done(op, "ok")
          /\ UNCHANGED <<aliases, TENANT_CACHE>>

\* TenantManager.create_site
create_site(domain) == _create_site(domain, FALSE, "create_site")

\* TenantManager.create_root_site
create_root_site(domain) == _create_site(domain, TRUE, "create_root_site")

\* SiteAlias(domain=domain, tenant=t).save(): insert under unique=True of
\* SiteAlias.domain (the row is identified by its domain); no signal handler is
\* connected for SiteAlias
SaveAlias(t, domain) ==
  /\ Cardinality(aliases) < MaxAliases
  /\ t \in tenants
  /\ IF \E a \in aliases : a.domain = domain
     THEN /\ Done("save_alias", "IntegrityError")
          /\ UNCHANGED <<sites, tenants, aliases, nextPk, TENANT_CACHE>>
     ELSE /\ aliases' = aliases \cup {[domain |-> domain, tenant |-> t.pk]}
          /\ Done("save_alias", "ok")
          /\ UNCHANGED <<sites, tenants, nextPk, TENANT_CACHE>>

\* alias.domain = domain; alias.save(): update under unique=True; no signal
\* handler is connected for SiteAlias
UpdateAlias(a, domain) ==
  /\ a \in aliases
  /\ a.domain # domain
  /\ IF \E x \in aliases : x.domain = domain
     THEN /\ Done("update_alias", "IntegrityError")
          /\ UNCHANGED <<sites, tenants, aliases, nextPk, TENANT_CACHE>>
     ELSE /\ aliases' = (aliases \ {a}) \cup {[a EXCEPT !.domain = domain]}
          /\ Done("update_alias", "ok")
          /\ UNCHANGED <<sites, tenants, nextPk, TENANT_CACHE>>

\* alias.delete(): no signal handler is connected for SiteAlias
DeleteAlias(a) ==
  /\ a \in aliases
  /\ aliases' = aliases \ {a}
  /\ Done("delete_alias", "ok")
  /\ UNCHANGED <<sites, tenants, nextPk, TENANT_CACHE>>

\* tenant.delete(): pre_delete is sent with sender=Tenant and sender=SiteAlias,
\* for which no handler is connected; the aliases cascade, the Site row stays
DeleteTenant(t) ==
  /\ t \in tenants
  /\ tenants' = tenants \ {t}
  /\ aliases' = aliases \ AliasesOf(t)
  /\ Done("delete_tenant", "ok")
  /\ UNCHANGED <<sites, nextPk, TENANT_CACHE>>

\* site.delete(): pre_delete with sender=Site runs clear_tenant_cache before
\* anything is deleted; the Tenant and its aliases cascade
DeleteSite(s) ==
  /\ s \in sites
  /\ LET h == clear_tenant_cache(s.pk)
         ts == {t \in tenants : t.site = s.pk}
     IN /\ TENANT_CACHE' = h.cache
        /\ IF h.raised
           THEN /\ Done("delete_site", "AttributeError")
                /\ UNCHANGED <<sites, tenants, aliases, nextPk>>
           ELSE /\ sites' = sites \ {s}
                /\ tenants' = tenants \ ts
                /\ aliases' = {a \in aliases : a.tenant \notin {t.pk : t \in ts}}
                /\ Done("delete_site", "ok")
                /\ UNCHANGED nextPk

\* site.domain = domain; site.save(): pre_save with sender=Site runs
\* clear_tenant_cache, then the row is updated under the unique constraint
SaveSite(s, domain) ==
  /\ s \in sites
  /\ s.domain # domain
  /\ LET h == clear_tenant_cache(s.pk)
     IN /\ TENANT_CACHE' = h.cache
        /\ IF h.raised
           THEN /\ Done("save_site", "AttributeError")
                /\ UNCHANGED <<sites, tenants, aliases, nextPk>>
           ELSE IF \E x \in sites : x.domain = domain
           THEN /\ Done("save_site", "IntegrityError")
                /\ UNCHANGED <<sites, tenants, aliases, nextPk>>
           ELSE /\ sites' = (sites \ {s}) \cup {[s EXCEPT !.domain = domain]}
                /\ Done("save_site", "ok")
                /\ UNCHANGED <<tenants, aliases, nextPk>>

\* Tenant.clean_fields on a tenant with primary key pk and the new value
\* is_root of is_root_site.  The field validators accept every preferred_domain:
\* the field lists the class PreferredHostnameValidator, not an instance, so
\* "validating" a value constructs a validator and checks nothing.  The root
\* check reads the stored root tenant: none passes, several raise
\* MultipleObjectsReturned, and one that is another tenant makes the method
\* build its error message from root.hostname, which Tenant does not have
clean_fields(pk, is_root) ==
  LET roots == {t \in tenants : t.is_root_site}
  IN IF roots = {} THEN "ok"
     ELSE IF Cardinality(roots) > 1 THEN "MultipleObjectsReturned"
     ELSE IF is_root /\ \E r \in roots : r.pk # pk THEN "AttributeError"
     ELSE "ok"

\* a tenant edited through the admin form: full_clean(), which runs
\* clean_fields, then save(); pre_save is sent with sender=Tenant, for which no
\* handler is connected
UpdateTenant(t, preferred, is_root) ==
  /\ t \in tenants
  /\ IF clean_fields(t.pk, is_root) # "ok"
     THEN /\ Done("update_tenant", clean_fields(t.pk, is_root))
          /\ UNCHANGED <<sites, tenants, aliases, nextPk, TENANT_CACHE>>
     ELSE /\ tenants' = (tenants \ {t}) \cup
                          {[t EXCEPT !.preferred_domain = preferred, !.is_root_site = is_root]}
          /\ Done("update_tenant", "ok")
          /\ UNCHANGED <<sites, aliases, nextPk, TENANT_CACHE>>


----------------------------------------------------------------------------
(* Resolution through the cached manager lookup *)

\* the key under which _get_tenant_by_request looks the host up: split_domain_port
\* is applied only when the host contains ':', otherwise the host is used as sent
CacheKey(host) == IF HasColon(host) THEN split_domain_port(host) ELSE host

\* the rows of Tenant.objects.filter(Q(site__domain__iexact=domain) |
\* Q(aliases__domain__iexact=domain)): Tenant joined with its Site and, with a
\* left outer join, with its aliases; one row per (tenant, alias) pair, or one
\* row with a NULL alias for a tenant without aliases
TenantRows(domain) ==
  {r \in {<<t.pk, a.domain>> : t \in tenants, a \in aliases} \cup {<<t.pk, NULL>> : t \in tenants} :
     LET t == TenantByPk(r[1])
     IN /\ IF r[2] = NULL THEN AliasesOf(t) = {} ELSE \E a \in AliasesOf(t) : a.domain = r[2]
        /\ \/ IExact(TenantDomain(t), domain)
           \/ r[2] # NULL /\ IExact(r[2], domain)}

\* QuerySet.get(): the row when there is exactly one, DoesNotExist when there
\* is none, MultipleObjectsReturned otherwise
QueryGet(rows) ==
  IF rows = {} THEN [status |-> "DoesNotExist", tenant |-> NoTenant]
  ELSE IF Cardinality(rows) = 1 THEN [status |-> "ok", tenant |-> (CHOOSE r \in rows : TRUE)[1]]
  ELSE [status |-> "MultipleObjectsReturned", tenant |-> NoTenant]

\* TenantManager._get_tenant_by_request: what it returns and the cache it leaves
_get_tenant_by_request(host) ==
  LET domain == CacheKey(host)
      got == QueryGet(TenantRows(domain))
  IN IF domain \in DOMAIN TENANT_CACHE.domain
     THEN [status |-> "ok", tenant |-> TENANT_CACHE.domain[domain], cache |-> TENANT_CACHE]
     ELSE IF got.status = "ok"
     THEN [status |-> "ok", tenant |-> got.tenant,
           cache |-> [TENANT_CACHE EXCEPT !.domain = (domain :> got.tenant) @@ @]]
     ELSE [status |-> got.status, tenant |-> NoTenant, cache |-> TENANT_CACHE]

\* TenantManager.get_current(request) for a request with the Host header host
get_current(host) ==
  LET r == _get_tenant_by_request(host)
  IN /\ request' = [NoRequest EXCEPT !.op = "get_current", !.host = host]
     /\ response' = [NoResponse EXCEPT !.status = r.status, !.kind = "tenant", !.tenant = r.tenant]
     /\ TENANT_CACHE' = r.cache
     /\ UNCHANGED <<sites, tenants, aliases, nextPk, appvars, procvars>>

\* TenantManager._get_tenant_by_id
_get_tenant_by_id(tenant_id) ==
  /\ request' = [NoRequest EXCEPT !.op = "get_by_id"]
  /\ IF tenant_id \in DOMAIN TENANT_CACHE.pk
     THEN /\ response' = [NoResponse EXCEPT !.status = "ok", !.kind = "tenant",
                                            !.tenant = TENANT_CACHE.pk[tenant_id]]
          /\ UNCHANGED TENANT_CACHE
     ELSE IF tenant_id \in TenantPks
     THEN /\ response' = [NoResponse EXCEPT !.status = "ok", !.kind = "tenant", !.tenant = tenant_id]
          /\ TENANT_CACHE' = [TENANT_CACHE EXCEPT !.pk = (tenant_id :> tenant_id) @@ @]
     ELSE /\ response' = [NoResponse EXCEPT !.status = "DoesNotExist"]
          /\ UNCHANGED TENANT_CACHE
  /\ UNCHANGED <<sites, tenants, aliases, nextPk, appvars, procvars>>

\* the default port of a plain-HTTP server
Port80 == <<"8", "0">>

\* HttpRequest.get_host() (every host allowed): the Host header when the request
\* has one; otherwise SERVER_NAME, followed by ':' and SERVER_PORT when the port
\* is not the default one.  It does not raise MissingHostException.
get_host(http_host, server_name, server_port) ==
  IF http_host # NoHost THEN http_host
  ELSE IF server_port = Port80 THEN server_name
  ELSE server_name \o <<":">> \o server_port

\* TenantManager.get_current(request) for a request without Host header, on a
\* server with the given SERVER_NAME and SERVER_PORT
get_current_without_host(server_name, server_port) ==
  LET r == _get_tenant_by_request(get_host(NoHost, server_name, server_port))
  IN /\ request' = [NoRequest EXCEPT !.op = "get_current", !.host = NoHost]
     /\ response' = [NoResponse EXCEPT !.status = r.status, !.kind = "tenant", !.tenant = r.tenant]
     /\ TENANT_CACHE' = r.cache
     /\ UNCHANGED <<sites, tenants, aliases, nextPk, appvars, procvars>>

\* TenantManager.get_current() without a request: the current request is taken
\* from CrequestMiddleware and dropped, and the method returns nothing (None)
get_current_no_request(current_request) == NoTenant

\* TenantManager.clear_cache
clear_cache ==
  /\ TENANT_CACHE # EmptyCache
  /\ TENANT_CACHE' = EmptyCache
  /\ Done("clear_cache", "ok")
  /\ UNCHANGED <<sites, tenants, aliases, nextPk>>

----------------------------------------------------------------------------
(* Resolution through the middleware matcher *)

\* hostname, _ = hostname.split(':') when the host contains ':': the part
\* before the colon, in the letter case it was sent in
SplitColon(host) == SubSeq(host, 1, LastColon(host) - 1)

\* match_site_to_request: MissingHostException for a request without Host
\* header, otherwise the canonical domain first (exact lookup), then the alias
\* (exact lookup)
match_site_to_request(host) ==
  LET hostname == IF HasColon(host) THEN SplitColon(host) ELSE host
      byDomain == {<<t.pk, NULL>> : t \in {x \in tenants : TenantDomain(x) = hostname}}
      byAlias == {<<a.tenant, a.domain>> : a \in {x \in aliases : x.domain = hostname}}
  IN IF host = NoHost
     THEN [status |-> "MissingHostException", kind |-> "none", tenant |-> NoTenant]
     ELSE IF HasColon(host) /\ CountColons(host) # 1
     THEN [status |-> "ValueError", kind |-> "none", tenant |-> NoTenant]
     ELSE IF QueryGet(byDomain).status = "ok"
     THEN [status |-> "ok", kind |-> "domain", tenant |-> QueryGet(byDomain).tenant]
     ELSE IF QueryGet(byDomain).status = "MultipleObjectsReturned"
     THEN [status |-> "MultipleObjectsReturned", kind |-> "none", tenant |-> NoTenant]
     ELSE IF QueryGet(byAlias).status = "ok"
     THEN [status |-> "ok", kind |-> "alias", tenant |-> QueryGet(byAlias).tenant]
     ELSE [status |-> QueryGet(byAlias).status, kind |-> "none", tenant |-> NoTenant]

\* a resolution by the matcher alone
MatchSite(host) ==
  LET m == match_site_to_request(host)
  IN /\ request' = [NoRequest EXCEPT !.op = "match_site"]
     /\ response' = [NoResponse EXCEPT !.status = m.status, !.kind = m.kind, !.tenant = m.tenant]
     /\ UNCHANGED <<sites, tenants, aliases, nextPk, TENANT_CACHE, appvars, procvars>>

----------------------------------------------------------------------------
(* The middleware *)

\* str.startswith
StartsWith(str, prefix) ==
  Len(str) >= Len(prefix) /\ SubSeq(str, 1, Len(prefix)) = prefix

\* urllib.parse.quote_plus on one character: letters, digits and _.-~ are
\* kept, a space becomes '+', anything else its percent code
QuoteChar(c) ==
  CASE c = " " -> <<"+">>
    [] c = "&" -> <<"%", "2", "6">>
    [] c = "=" -> <<"%", "3", "D">>
    [] c = "+" -> <<"%", "2", "B">>
    [] c = "%" -> <<"%", "2", "5">>
    [] c = "/" -> <<"%", "2", "F">>
    [] c = ":" -> <<"%", "3", "A">>
    [] c = "?" -> <<"%", "3", "F">>
    [] OTHER -> <<c>>

\* urllib.parse.quote_plus
RECURSIVE quote_plus(_)
quote_plus(str) ==
  IF str = << >> THEN << >> ELSE QuoteChar(Head(str)) \o quote_plus(Tail(str))

\* the "key=value" pairs of one key of the query, joined by '&'
RECURSIVE EncodeValues(_, _)
EncodeValues(key, values) ==
  IF values = << >> THEN << >>
  ELSE quote_plus(key) \o <<"=">> \o quote_plus(Head(values))
       \o (IF Tail(values) = << >> THEN << >> ELSE <<"&">> \o EncodeValues(key, Tail(values)))

\* django.utils.http.urlencode(query, doseq=True)
RECURSIVE urlencode(_)
urlencode(query) ==
  IF query = << >> THEN << >>
  ELSE EncodeValues(Head(query)[1], Head(query)[2])
       \o (IF Tail(query) = << >> THEN << >> ELSE <<"&">> \o urlencode(Tail(query)))

\* the redirect of process_request: https://{public_domain}{path}, with
\* '?' and the encoded GET arguments when there are any
RedirectUrl(t, path, GET) ==
  Https \o public_domain(t) \o path
    \o (IF GET # << >> THEN <<"?">> \o urlencode(GET) ELSE << >>)

\* the condition under which process_request redirects: an admin path, and
\* either a request that is not secure or an alias match whose domain, as
\* split_domain_port returns it, is not the preferred domain
MustRedirect(host, path, secure, match_type, t) ==
  /\ StartsWith(path, AdminPath)
  /\ \/ ~secure
     \/ match_type = "alias" /\ split_domain_port(host) # t.preferred_domain

\* SiteSelectingMiddleware.process_request: Http404 when no site matches, a
\* 400 response when the Host header is missing, a redirect or the request
\* passed on with request.site bound and with request.path as it came in
\* (nothing assigns to it); a new request, of which nothing downstream has read
\* anything yet
process_request(host, path, secure, GET) ==
  LET m == match_site_to_request(host)
  IN /\ request' = [op |-> "process_request", host |-> host, path |-> path,
                    secure |-> secure, GET |-> GET]
     /\ response' =
          IF m.status = "DoesNotExist" THEN [NoResponse EXCEPT !.status = "404"]
          ELSE IF m.status = "MissingHostException" THEN [NoResponse EXCEPT !.status = "400"]
          ELSE IF m.status # "ok" THEN [NoResponse EXCEPT !.status = m.status]
          ELSE IF MustRedirect(host, path, secure, m.kind, TenantByPk(m.tenant))
          THEN [status |-> "redirect", kind |-> m.kind, tenant |-> m.tenant,
                url |-> RedirectUrl(TenantByPk(m.tenant), path, GET), path |-> EmptyStr]
          ELSE [status |-> "forwarded", kind |-> m.kind, tenant |-> m.tenant, url |-> EmptyStr,
                path |-> path]
     /\ result' = NoResult
     /\ UNCHANGED <<sites, tenants, aliases, nextPk, TENANT_CACHE, stuff, instance, groups, procvars>>

----------------------------------------------------------------------------
(* The resolution model: store operations, cache and the two resolution paths *)

Next ==
  \/ \E d \in Domains \cup {EmptyStr} : create_site(d)
  \/ \E t \in tenants, d \in Domains : SaveAlias(t, d)
  \/ \E a \in aliases, d \in Domains : UpdateAlias(a, d)
  \/ \E a \in aliases : DeleteAlias(a)
  \/ \E t \in tenants : DeleteTenant(t)
  \/ \E s \in sites : DeleteSite(s)
  \/ \E s \in sites, d \in Domains : SaveSite(s, d)
  \/ \E h \in Hosts : get_current(h)
  \/ \E k \in 1..MaxSites : _get_tenant_by_id(k)
  \/ clear_cache
  \/ \E h \in Hosts : MatchSite(h)

Spec == Init /\ [][Next]_vars


----------------------------------------------------------------------------
(* Properties of resolution and of the cache *)

\* the outcome of a resolution through the matcher
MatchOutcome(h) ==
  LET m == match_site_to_request(h) IN <<m.status, m.tenant>>

\* the outcome of a resolution through the cached manager lookup
CachedOutcome(h) ==
  LET r == _get_tenant_by_request(h) IN <<r.status, r.tenant>>

\* the tenants that have d as canonical domain, and those that own the alias d
CanonicalOwners(d) == {t \in tenants : TenantDomain(t) = d}
AliasOwners(d) == {t \in tenants : \E a \in AliasesOf(t) : a.domain = d}

\* the domain strings of tenant t: canonical domain and aliases
DomainsOf(t) == {TenantDomain(t)} \cup {a.domain : a \in AliasesOf(t)}

\* every domain string is used once: by one tenant as canonical domain or by
\* one alias, never by both
DomainUniqueness ==
  /\ \A t1, t2 \in tenants : TenantDomain(t1) = TenantDomain(t2) => t1 = t2
  /\ \A a1, a2 \in aliases : a1.domain = a2.domain => a1 = a2
  /\ \A t \in tenants, a \in aliases : TenantDomain(t) # a.domain

\* C1: in a store that satisfies domain uniqueness, a host that is the canonical
\* domain of T resolves to T as a hostname match, a host that is an alias of T
\* resolves to T as an alias match, and a host that is neither is not found;
\* on the matcher and on the store lookup of the cached manager path (a host
\* not yet in the cache), whatever the number of aliases of T
C1_ResolutionCorrect ==
  DomainUniqueness =>
    \A h \in Domains :
      LET m == match_site_to_request(h)
          r == _get_tenant_by_request(h)
          miss == CacheKey(h) \notin DOMAIN TENANT_CACHE.domain
      IN /\ \A t \in CanonicalOwners(h) :
              /\ m.status = "ok" /\ m.kind = "domain" /\ m.tenant = t.pk
              /\ miss => (r.status = "ok" /\ r.tenant = t.pk)
         /\ \A t \in AliasOwners(h) :
              /\ m.status = "ok" /\ m.kind = "alias" /\ m.tenant = t.pk
              /\ miss => (r.status = "ok" /\ r.tenant = t.pk)
         /\ (CanonicalOwners(h) = {} /\ AliasOwners(h) = {}) =>
              /\ m.status = "DoesNotExist"
              /\ miss => r.status = "DoesNotExist"

\* the hosts that name the domain d: d itself, in any letter case, with or
\* without a port
HostsOf(d) == {h \in Hosts : IExact(IF HasColon(h) THEN SplitColon(h) ELSE h, d)}

\* C2: when a tenant that is in the cache (under a domain or under its id) is
\* deleted, a resolve of its canonical domain or of one of its aliases made
\* after the deletion does not return it, on either resolution path
C2_DeletedNotResolved ==
  [][\A t \in tenants :
       (/\ t \notin tenants'
        /\ \/ t.pk \in DOMAIN TENANT_CACHE.pk
           \/ \E k \in DOMAIN TENANT_CACHE.domain : TENANT_CACHE.domain[k] = t.pk)
       => \A d \in DomainsOf(t) : \A h \in HostsOf(d) :
            /\ CachedOutcome(h)'[2] # t.pk
            /\ MatchOutcome(h)'[2] # t.pk]_vars

\* the tenants written by a step: deleted, or with an alias added, removed or
\* renamed, or with the canonical domain changed
Written(t) ==
  \/ t \notin tenants'
  \/ AliasesOf(t) # {a \in aliases' : a.tenant = t.pk}
  \/ \E s \in sites' : s.pk = t.site /\ s.domain # TenantDomain(t)

\* C5: after a step that writes a tenant or one of its aliases, the cache has no
\* entry under the id of the tenant, under its previous canonical domain or
\* under one of its previous alias domains
C5_WriteEvicts ==
  [][\A t \in tenants :
       Written(t) =>
         /\ t.pk \notin DOMAIN TENANT_CACHE'.pk
         /\ \A d \in DomainsOf(t) : d \notin DOMAIN TENANT_CACHE'.domain]_vars

\* C6: a host that is the canonical domain of A and an alias owned by B resolves
\* to A as a hostname match on the matcher, and to A on the store lookup of the
\* cached manager path; never to B, never with MultipleObjectsReturned
C6_CanonicalFirst ==
  \A h \in Domains : \A A \in CanonicalOwners(h) :
    (\E B \in tenants : B \in AliasOwners(h)) =>
      LET m == match_site_to_request(h)
          r == _get_tenant_by_request(h)
      IN /\ m.status = "ok" /\ m.kind = "domain" /\ m.tenant = A.pk
         /\ CacheKey(h) \notin DOMAIN TENANT_CACHE.domain =>
              (r.status = "ok" /\ r.tenant = A.pk)

\* C7: two hosts that differ only in letter case resolve with the same outcome,
\* on both resolution paths, in every store and cache state
C7_CaseInsensitive ==
  \A h1, h2 \in Hosts :
    IExact(h1, h2) =>
      /\ MatchOutcome(h1) = MatchOutcome(h2)
      /\ CachedOutcome(h1) = CachedOutcome(h2)

\* C8: a host with a port resolves with the same outcome as the host without
\* it, on both resolution paths, and no cache key contains a port
C8_PortStripped ==
  /\ \A h \in Hosts :
       (~HasColon(h) /\ (h \o Port8) \in Hosts) =>
         /\ MatchOutcome(h \o Port8) = MatchOutcome(h)
         /\ CachedOutcome(h \o Port8) = CachedOutcome(h)
  /\ \A k \in DOMAIN TENANT_CACHE.domain : ~HasColon(k)


----------------------------------------------------------------------------
(* The store model: creation and update of tenants and aliases *)

NextStore ==
  \/ \E d \in CreateDomains : create_site(d)
  \/ \E d \in CreateDomains : create_root_site(d)
  \/ \E t \in tenants, d \in Domains : SaveAlias(t, d)
  \/ \E a \in aliases, d \in Domains : UpdateAlias(a, d)
  \/ \E a \in aliases : DeleteAlias(a)
  \/ \E t \in tenants : DeleteTenant(t)
  \/ \E t \in tenants, d \in PreferredDomains, r \in BOOLEAN : UpdateTenant(t, d, r)

SpecStore == Init /\ [][NextStore]_vars

\* C3: at most one tenant has is_root_site = true
C3_SingleRoot == Cardinality({t \in tenants : t.is_root_site}) <= 1

\* C4: every domain string is the canonical domain of at most one tenant and
\* the domain of at most one alias, and never both a canonical domain and an
\* alias domain
C4_UnifiedNamespace == DomainUniqueness


----------------------------------------------------------------------------
(* The middleware model: tenants, aliases, preferred domains and requests *)

NextMw ==
  \/ \E d \in MwCanonical : create_site(d)
  \/ \E t \in tenants, d \in MwAliases : SaveAlias(t, d)
  \/ \E t \in tenants, d \in MwPreferred : UpdateTenant(t, d, t.is_root_site)
  \/ \E h \in MwHosts, p \in Paths, s \in BOOLEAN, q \in Queries : process_request(h, p, s, q)

SpecMw == Init /\ [][NextMw]_vars

\* the host a request used: its Host header without the port
HostUsed(host) == IF HasColon(host) THEN SubSeq(host, 1, LastColon(host) - 1) ELSE host

\* the tenant a response was resolved to
Resolved == TenantByPk(response.tenant)

\* C9: a successfully resolved request is redirected if and only if its path is
\* an administrative path and (it is not encrypted or (the match kind is alias
\* and the host used differs from the preferred domain of the tenant));
\* otherwise it is forwarded with the tenant bound and without a redirect
C9_RedirectIff ==
  (request.op = "process_request" /\ response.status \in {"redirect", "forwarded"}) =>
    /\ response.status = "redirect" <=>
         /\ StartsWith(request.path, AdminPath)
         /\ \/ ~request.secure
            \/ response.kind = "alias" /\ HostUsed(request.host) # Resolved.preferred_domain
    /\ response.status = "forwarded" => (response.tenant \in TenantPks /\ response.url = EmptyStr)


\* index of the first occurrence of the character c in str (0 when absent)
FirstIndex(str, c) ==
  IF \E i \in 1..Len(str) : str[i] = c
  THEN CHOOSE i \in 1..Len(str) : str[i] = c /\ \A j \in 1..(i - 1) : str[j] # c
  ELSE 0

\* str cut at every occurrence of the character c
RECURSIVE SplitOn(_, _)
SplitOn(str, c) ==
  LET i == FirstIndex(str, c)
  IN IF i = 0 THEN <<str>>
     ELSE <<SubSeq(str, 1, i - 1)>> \o SplitOn(SubSeq(str, i + 1, Len(str)), c)

\* the character a percent code stands for
PercentCode(hi, lo) ==
  CASE hi = "2" /\ lo = "6" -> "&"
    [] hi = "3" /\ lo = "D" -> "="
    [] hi = "2" /\ lo = "B" -> "+"
    [] hi = "2" /\ lo = "5" -> "%"
    [] hi = "2" /\ lo = "F" -> "/"
    [] hi = "3" /\ lo = "A" -> ":"
    [] hi = "3" /\ lo = "F" -> "?"
    [] OTHER -> "invalid"

\* what a reader of the URL decodes a query component to
RECURSIVE Decoded(_)
Decoded(str) ==
  IF str = << >> THEN << >>
  ELSE IF Head(str) = "+" THEN <<" ">> \o Decoded(Tail(str))
  ELSE IF Head(str) = "%" /\ Len(str) >= 3
  THEN <<PercentCode(str[2], str[3])>> \o Decoded(SubSeq(str, 4, Len(str)))
  ELSE <<Head(str)>> \o Decoded(Tail(str))

\* the (key, value) pairs a reader of the URL finds in a query string
ReadQuery(str) ==
  LET parts == SplitOn(str, "&")
  IN [i \in 1..Len(parts) |->
        LET kv == SplitOn(parts[i], "=")
        IN IF Len(kv) = 2 THEN <<Decoded(kv[1]), Decoded(kv[2])>> ELSE <<"invalid">>]

\* the (key, value) pairs of request.GET, in order
RECURSIVE Pairs(_)
Pairs(query) ==
  IF query = << >> THEN << >>
  ELSE [i \in 1..Len(Head(query)[2]) |-> <<Head(query)[1], Head(query)[2][i]>>]
       \o Pairs(Tail(query))

----------------------------------------------------------------------------
(* Downstream of the middleware: the readers of the current tenant *)

\* a request the middleware passed on is being handled
InFlight == request.op = "process_request" /\ response.status = "forwarded"

\* context_processors.multitenancy(request) for the request being handled: the
\* middleware bound request.site, the request has no attribute 'tenant', and
\* the tenant is resolved again with Tenant.objects.get_current(request)
multitenancy ==
  /\ InFlight
  /\ LET r == _get_tenant_by_request(get_host(request.host, EmptyStr, Port80))
     IN /\ result' = [NoResult EXCEPT !.op = "multitenancy", !.status = r.status, !.tenant = r.tenant]
        /\ TENANT_CACHE' = r.cache
  /\ UNCHANGED <<sites, tenants, aliases, nextPk, request, response, stuff, instance, groups, procvars>>

\* TenantSpecificManager.get_queryset, as in Stuff.tenant_objects.all(): the
\* rows of the tenant that get_current() returns, every row when it returns none
get_queryset ==
  LET tenant == get_current_no_request(request)
  IN /\ result' = [NoResult EXCEPT !.op = "tenant_objects", !.status = "ok", !.tenant = tenant,
                                   !.rows = IF tenant # NoTenant
                                            THEN {r \in stuff : r.tenant = tenant}
                                            ELSE stuff]
     /\ UNCHANGED <<sites, tenants, aliases, nextPk, TENANT_CACHE, request, response,
                    stuff, instance, groups, procvars>>

----------------------------------------------------------------------------
(* The request model: store, cache, middleware and the readers downstream *)

\* the alias domains, the Host headers and the server names of the request model
ReqAliases == {DomB, DomC}
ReqHosts == {DomA, DomC, NoHost}
ServerNames == {DomA, DomC}
ServerPorts == {Port80, <<"8">>}

NextReq ==
  \/ \E d \in MwCanonical : create_site(d)
  \/ \E t \in tenants, d \in ReqAliases : SaveAlias(t, d)
  \/ \E t \in tenants : DeleteTenant(t)
  \/ \E h \in ReqHosts, p \in Paths, s \in BOOLEAN : process_request(h, p, s, NoQuery)
  \/ \E h \in ReqHosts \ {NoHost} : get_current(h)
  \/ \E n \in ServerNames, p \in ServerPorts : get_current_without_host(n, p)
  \/ multitenancy
  \/ get_queryset

SpecReq == Init /\ [][NextReq]_vars

\* no tenant has the host h as canonical domain or as alias
NoMatch(h) ==
  \A t \in tenants : \A d \in DomainsOf(t) : ~IExact(d, HostUsed(h))

\* C11: a request whose host matches no tenant gets a 404 from the middleware
\* and a request without Host header a 400; in both cases no tenant is bound,
\* no redirect is issued and the request is not passed on, and the manager
\* lookup for such a request returns no tenant, no response object in place of
\* a tenant, and adds no cache entry
C11_Rejected ==
  [][/\ \A h \in ReqHosts, p \in Paths, s \in BOOLEAN :
          (process_request(h, p, s, NoQuery) /\ (h = NoHost \/ NoMatch(h))) =>
             /\ response'.status = (IF h = NoHost THEN "400" ELSE "404")
             /\ response'.tenant = NoTenant
             /\ response'.url = EmptyStr
             /\ TENANT_CACHE' = TENANT_CACHE
     /\ \A h \in ReqHosts \ {NoHost} :
          (get_current(h) /\ NoMatch(h)) =>
             /\ response'.tenant = NoTenant
             /\ response'.status # "ok"
             /\ TENANT_CACHE' = TENANT_CACHE
     /\ \A n \in ServerNames, p \in ServerPorts :
          get_current_without_host(n, p) =>
             /\ response'.tenant = NoTenant
             /\ response'.status # "ok"
             /\ TENANT_CACHE' = TENANT_CACHE]_vars

\* C14: while a request is being handled, what a downstream reader of the
\* current tenant observes (the context processor, a tenant-scoped manager) is
\* the tenant the middleware bound to the request
C14_BoundOnce ==
  (InFlight /\ result.op \in {"multitenancy", "tenant_objects"}) =>
    (result.status = "ok" /\ result.tenant = response.tenant)


----------------------------------------------------------------------------
(* Properties of creation and update in the store model *)

\* C12: create_root_site while a root tenant exists, and an update that sets
\* is_root_site on a tenant while another tenant holds the flag, fail with a
\* validation error and leave the store unchanged; an update that sets the flag
\* on the tenant that holds it, or when no tenant holds it, is accepted
C12_SecondRootRejected ==
  [][/\ \A d \in CreateDomains :
          (create_root_site(d) /\ \E r \in tenants : r.is_root_site) =>
             /\ response'.status = "ValidationError"
             /\ UNCHANGED <<sites, tenants, aliases>>
     /\ \A t \in tenants, d \in PreferredDomains :
          UpdateTenant(t, d, TRUE) =>
             IF \E r \in tenants : r.is_root_site /\ r.pk # t.pk
             THEN /\ response'.status = "ValidationError"
                  /\ UNCHANGED <<sites, tenants, aliases>>
             ELSE response'.status = "ok"]_vars

IsAlnum(c) == c \in {"a", "b", "c", "A", "B", "C", "0", "8"}

\* one label of a domain name: [a-zA-Z0-9] | [a-zA-Z0-9][a-zA-Z0-9-]*[a-zA-Z0-9]
LabelValid(l) ==
  /\ l # << >>
  /\ IsAlnum(l[1])
  /\ IsAlnum(l[Len(l)])
  /\ \A i \in 1..Len(l) : IsAlnum(l[i]) \/ l[i] = "-"

\* the regular expression of get_domain_validators: (label\.)+label
DomainValid(d) ==
  LET labels == SplitOn(d, ".")
  IN Len(labels) >= 2 /\ \A i \in 1..Len(labels) : LabelValid(labels[i])

\* the domain d is the canonical domain of a tenant or the domain of an alias
InUse(d) ==
  \/ \E t \in tenants : TenantDomain(t) = d
  \/ \E a \in aliases : a.domain = d

\* C13: create_site and create_root_site with a domain that is not well formed,
\* or that is in use as the canonical domain of a tenant or as an alias, fail
\* and leave the store as it was (no Site row is left behind)
C13_CreateValidated ==
  [][\A d \in CreateDomains :
       ((create_site(d) \/ create_root_site(d)) /\ (~DomainValid(d) \/ InUse(d))) =>
          /\ response'.status # "ok"
          /\ UNCHANGED <<sites, tenants, aliases>>]_vars

\* C16: the preferred domain of every tenant is unset, or its own canonical
\* domain, or one of its own aliases, after every operation; an update that sets
\* it to anything else fails with a validation error and changes nothing
C16_PreferredValid ==
  [][/\ \A t \in tenants' : t.preferred_domain \in ({None, EmptyStr} \cup DomainsOf(t)')
     /\ \A t \in tenants, d \in Domains, r \in BOOLEAN :
          (UpdateTenant(t, d, r) /\ d \notin DomainsOf(t)) =>
             /\ response'.status = "ValidationError"
             /\ UNCHANGED <<sites, tenants, aliases>>]_vars

\* C15: the public domain of a tenant is its preferred domain when that is set,
\* and its canonical domain when the preferred domain is None or empty (also
\* after it was set and cleared again)
C15_PublicDomain ==
  \A t \in tenants :
    /\ t.preferred_domain \in {None, EmptyStr} =>
         public_domain(t) = (CHOOSE x \in sites : x.pk = t.site).domain
    /\ t.preferred_domain \notin {None, EmptyStr} =>
         public_domain(t) = t.preferred_domain

\* one tenant whose preferred domain was cleared by an update is public under
\* its canonical domain, another is public under the preferred domain it was given
C15_Witness ==
  /\ request.op = "update_tenant"
  /\ response.status = "ok"
  /\ \E t \in tenants :
       /\ t.preferred_domain = EmptyStr
       /\ TenantDomain(t) = DomA
       /\ public_domain(t) = DomA
  /\ \E t \in tenants :
       /\ t.preferred_domain = DomBUp
       /\ TenantDomain(t) = DomB
       /\ public_domain(t) = DomBUp


----------------------------------------------------------------------------
(* Tenant-owned entities: a model Stuff(TenantSpecificModel) *)

\* number of Stuff rows
MaxRows == 2

\* stuff = Stuff(tenant_id=tenant_id), not yet validated (tenant_id = NoTenant:
\* the tenant reference is unset)
NewInstance(tenant_id) ==
  /\ instance' = [state |-> "new", tenant_id |-> tenant_id]
  /\ UNCHANGED <<sites, tenants, aliases, nextPk, TENANT_CACHE, request, response,
                 stuff, groups, result, procvars>>

\* what clean() leaves in the tenant reference: the value of
\* Tenant.objects.get_current() when it is unset, its own value otherwise
Stamped(tenant_id) ==
  IF tenant_id = NoTenant THEN get_current_no_request(request) ELSE tenant_id

\* TenantSpecificModel.clean
clean ==
  /\ instance.state = "new"
  /\ instance' = [state |-> "cleaned", tenant_id |-> Stamped(instance.tenant_id)]
  /\ UNCHANGED <<sites, tenants, aliases, nextPk, TENANT_CACHE, request, response,
                 stuff, groups, result, procvars>>

\* TenantSpecificModelForm.clean on a form whose instance is the entity
form_clean ==
  /\ instance.state = "new"
  /\ instance' = [state |-> "form_cleaned", tenant_id |-> Stamped(instance.tenant_id)]
  /\ UNCHANGED <<sites, tenants, aliases, nextPk, TENANT_CACHE, request, response,
                 stuff, groups, result, procvars>>

\* stuff.save(): the row is inserted; tenant is a foreign key with null=False
save ==
  /\ instance.state # "none"
  /\ Cardinality(stuff) < MaxRows
  /\ IF instance.tenant_id \in TenantPks
     THEN /\ stuff' = stuff \cup {[id |-> Cardinality(stuff) + 1, tenant |-> instance.tenant_id]}
          /\ result' = [NoResult EXCEPT !.op = "save", !.status = "ok"]
     ELSE /\ result' = [NoResult EXCEPT !.op = "save", !.status = "IntegrityError"]
          /\ UNCHANGED stuff
  /\ instance' = NoInstance
  /\ UNCHANGED <<sites, tenants, aliases, nextPk, TENANT_CACHE, request, response, groups, procvars>>

\* TenantAwareQuerySet.in_tenant, as in Stuff.objects.in_tenant(tenant): the
\* method calls self.get_query_set(), which a QuerySet does not have
in_tenant(tenant) ==
  /\ result' = [NoResult EXCEPT !.op = "in_tenant", !.status = "AttributeError", !.tenant = tenant]
  /\ UNCHANGED <<sites, tenants, aliases, nextPk, TENANT_CACHE, request, response,
                 stuff, instance, groups, procvars>>

\* the Host headers of the requests of the entity model
AppHosts == {DomA, DomB}

NextApp ==
  \/ \E d \in MwCanonical : create_site(d)
  \/ \E h \in AppHosts : process_request(h, OtherPath, TRUE, NoQuery)
  \/ \E k \in TenantPks \cup {NoTenant} : NewInstance(k)
  \/ clean
  \/ form_clean
  \/ save
  \/ get_queryset
  \/ \E k \in TenantPks : in_tenant(k)

SpecApp == Init /\ [][NextApp]_vars

\* the rows owned by the tenant with primary key k
RowsOf(k) == {r \in stuff : r.tenant = k}

\* C17: while a request resolved to tenant T is being handled, the default
\* tenant-scoped read returns exactly the rows whose tenant is T; it returns
\* every row only when no tenant is bound
C17_ScopedRead ==
  [][get_queryset =>
       IF InFlight THEN result'.rows = RowsOf(response.tenant)
       ELSE result'.rows = stuff]_vars

\* C18: clean() of the model and clean() of the form stamp an entity whose
\* tenant reference is unset with the tenant of the request being handled, and
\* leave a tenant reference that is set as it is
C18_CleanStamps ==
  [][(clean \/ form_clean) =>
       IF instance.tenant_id = NoTenant
       THEN InFlight => instance'.tenant_id = response.tenant
       ELSE instance'.tenant_id = instance.tenant_id]_vars

\* C19: in_tenant(t) returns exactly the rows owned by t, for every tenant t,
\* whichever tenant is the current one
C19_Pinned ==
  [][\A k \in TenantPks :
       in_tenant(k) => (result'.status = "ok" /\ result'.rows = RowsOf(k))]_vars


----------------------------------------------------------------------------
(* Group permissions of one active user who is not a superuser *)

\* the Django groups: one without TenantGroup, two that get a TenantGroup
GlobalGroups == {"g1"}
TenantGroupNames == {"g2", "g3"}

\* group.permissions
PermsOfGroup == ("g1" :> {"p1"}) @@ ("g2" :> {"p2"}) @@ ("g3" :> {"p2", "p3"})

\* user.groups.add(group)
AddToGroup(g) ==
  /\ g \notin groups.user_groups
  /\ groups' = [groups EXCEPT !.user_groups = @ \cup {g}]
  /\ UNCHANGED <<sites, tenants, aliases, nextPk, TENANT_CACHE, request, response,
                 stuff, instance, result, procvars>>

\* TenantGroup(group=g, tenant=t).save(), with the user added to its users or
\* not; group is a one-to-one field
AddTenantGroup(g, t, member) ==
  /\ t \in tenants
  /\ \A tg \in groups.tenant_groups : tg.group # g
  /\ groups' = [groups EXCEPT !.tenant_groups =
                                @ \cup {[group |-> g, tenant |-> t.pk, member |-> member]}]
  /\ UNCHANGED <<sites, tenants, aliases, nextPk, TENANT_CACHE, request, response,
                 stuff, instance, result, procvars>>

\* TenantModelBackend._get_group_permissions(user): the permissions of the
\* groups of the user, and those of the groups whose TenantGroup has the user
\* among its users and has the tenant that Tenant.objects.get_current()
\* returns (a filter on tenant=None selects the rows without tenant)
_get_group_permissions ==
  LET tenant == get_current_no_request(request)
      base_groups == groups.user_groups
      tenant_groups == {tg.group : tg \in {x \in groups.tenant_groups :
                                              x.member /\ x.tenant = tenant}}
  IN /\ result' = [NoResult EXCEPT !.op = "group_permissions", !.status = "ok",
                                   !.perms = UNION {PermsOfGroup[g] : g \in base_groups \cup tenant_groups}]
     /\ UNCHANGED <<sites, tenants, aliases, nextPk, TENANT_CACHE, request, response,
                    stuff, instance, groups, procvars>>

NextAuth ==
  \/ \E d \in MwCanonical : create_site(d)
  \/ \E h \in AppHosts : process_request(h, OtherPath, TRUE, NoQuery)
  \/ \E g \in GlobalGroups : AddToGroup(g)
  \/ \E g \in TenantGroupNames, t \in tenants, m \in BOOLEAN : AddTenantGroup(g, t, m)
  \/ _get_group_permissions

SpecAuth == Init /\ [][NextAuth]_vars

\* C20: while a request of tenant T is being handled, the group permissions of
\* the user are exactly those of the user's global groups together with those
\* of the tenant groups of T that the user is a member of; a permission held
\* only through a tenant group of another tenant is not among them
C20_GroupPermissions ==
  [][(_get_group_permissions /\ InFlight) =>
       result'.perms =
         UNION {PermsOfGroup[g] : g \in groups.user_groups}
           \cup UNION {PermsOfGroup[tg.group] :
                         tg \in {x \in groups.tenant_groups :
                                   x.member /\ x.tenant = response.tenant}}]_vars

----------------------------------------------------------------------------
(* The user: flags, memberships *)

\* user._is_active = a; user._is_staff = s; user.is_superuser = su; user.save()
SetFlags(a, s, su) ==
  /\ <<a, s, su>> # <<user._is_active, user._is_staff, user.is_superuser>>
  /\ user' = [user EXCEPT !._is_active = a, !._is_staff = s, !.is_superuser = su]
  /\ UNCHANGED <<sites, tenants, aliases, nextPk, TENANT_CACHE, request, response,
                 appvars, memberships, resolver, updates>>

\* TenantMembership(tenant=t, user=user, is_active=a, is_staff=s).save(): insert
\* under unique_together ('tenant', 'user')
SaveMembership(t, a, s) ==
  /\ t \in tenants
  /\ IF \E m \in memberships : m.tenant = t.pk
     THEN /\ result' = [NoResult EXCEPT !.op = "save_membership", !.status = "IntegrityError"]
          /\ UNCHANGED memberships
     ELSE /\ memberships' = memberships \cup {[tenant |-> t.pk, is_active |-> a, is_staff |-> s]}
          /\ result' = [NoResult EXCEPT !.op = "save_membership", !.status = "ok"]
  /\ UNCHANGED <<sites, tenants, aliases, nextPk, TENANT_CACHE, request, response,
                 stuff, instance, groups, user, resolver, updates>>

\* AbstractTenantUser.is_super_admin: the user is in a Django group that has a
\* TenantGroup
is_super_admin == \E g \in groups.user_groups : \E tg \in groups.tenant_groups : tg.group = g

\* TenantMembership.objects.get(tenant=tenant, user=user): the rows that match;
\* tenant=None matches the rows whose tenant is NULL, and the column is not
\* nullable
MembershipGet(tenant) == {m \in memberships : m.tenant = tenant}

\* AbstractTenantUser.is_active_for_tenant(): the tenant is the one that
\* Tenant.objects.get_current() returns; get() raises DoesNotExist when no row
\* matches and nothing catches it
is_active_for_tenant ==
  IF is_super_admin /\ user._is_active
  THEN [status |-> "ok", value |-> TRUE]
  ELSE LET tenant == get_current_no_request(request)
           found == MembershipGet(tenant)
       IN IF found = {}
          THEN [status |-> "DoesNotExist", value |-> FALSE]
          ELSE [status |-> "ok", value |-> (CHOOSE m \in found : TRUE).is_active]

\* AbstractTenantUser.is_staff_for_tenant()
is_staff_for_tenant ==
  IF is_super_admin /\ user._is_staff
  THEN [status |-> "ok", value |-> TRUE]
  ELSE LET tenant == get_current_no_request(request)
           found == MembershipGet(tenant)
       IN IF found = {}
          THEN [status |-> "DoesNotExist", value |-> FALSE]
          ELSE [status |-> "ok", value |-> (CHOOSE m \in found : TRUE).is_staff]

\* AbstractTenantUser.is_active: "and" does not evaluate its right operand when
\* the flag is false
is_active ==
  IF ~user._is_active THEN [status |-> "ok", value |-> FALSE] ELSE is_active_for_tenant

\* AbstractTenantUser.is_staff
is_staff ==
  IF ~user._is_staff THEN [status |-> "ok", value |-> FALSE] ELSE is_staff_for_tenant

\* the property user.is_active is read while the request is handled
get_is_active ==
  /\ result' = [NoResult EXCEPT !.op = "is_active", !.status = is_active.status,
                                !.value = is_active.value]
  /\ UNCHANGED <<sites, tenants, aliases, nextPk, TENANT_CACHE, request, response,
                 stuff, instance, groups, procvars>>

\* the property user.is_staff is read while the request is handled
get_is_staff ==
  /\ result' = [NoResult EXCEPT !.op = "is_staff", !.status = is_staff.status,
                                !.value = is_staff.value]
  /\ UNCHANGED <<sites, tenants, aliases, nextPk, TENANT_CACHE, request, response,
                 stuff, instance, groups, procvars>>

\* AbstractTenantUser.add_to_tenant(tenant): self.tenants is the manager of the
\* Tenant rows of the user, and Tenant has neither a field nor a relation named
\* "tenant": get(tenant=...) raises FieldError, which the except clause (for
\* TenantMembership.DoesNotExist) does not catch.  No row is written.
add_to_tenant(t) ==
  /\ t \in tenants
  /\ result' = [NoResult EXCEPT !.op = "add_to_tenant", !.status = "FieldError", !.tenant = t.pk]
  /\ UNCHANGED <<sites, tenants, aliases, nextPk, TENANT_CACHE, request, response,
                 stuff, instance, groups, procvars>>

\* the groups that make a super-admin
AdminGroups == {"g2"}

NextUser ==
  \/ \E d \in MwCanonical : create_site(d)
  \/ \E h \in AppHosts : process_request(h, OtherPath, TRUE, NoQuery)
  \/ \E g \in AdminGroups : AddToGroup(g)
  \/ \E g \in AdminGroups, t \in tenants : AddTenantGroup(g, t, FALSE)
  \/ \E a \in BOOLEAN, s \in BOOLEAN : SetFlags(a, s, FALSE)
  \/ \E t \in tenants, a \in BOOLEAN, s \in BOOLEAN : SaveMembership(t, a, s)
  \/ \E t \in tenants : add_to_tenant(t)
  \/ get_is_active
  \/ get_is_staff

SpecUser == Init /\ [][NextUser]_vars

\* the membership row of the user for the tenant of the request being handled
\* has the flag
MemberWith(flag) ==
  \E m \in memberships : m.tenant = response.tenant /\ m[flag]

\* C21: while a request of tenant T is being handled, user.is_active
\* (user.is_staff) evaluates, without failing, to: the global flag of the user
\* is true and the user is a super-admin or has a membership row for T whose
\* is_active (is_staff) flag is true; it is false when there is no row for T
C21_TenantRelativeFlags ==
  [][/\ (get_is_active /\ InFlight) =>
          /\ result'.status = "ok"
          /\ result'.value = (user._is_active /\ (is_super_admin \/ MemberWith("is_active")))
     /\ (get_is_staff /\ InFlight) =>
          /\ result'.status = "ok"
          /\ result'.value = (user._is_staff /\ (is_super_admin \/ MemberWith("is_staff")))]_vars

\* the membership rows of the user for the tenant with primary key pk
MembershipsOf(pk) == {m \in memberships : m.tenant = pk}

\* C24: add_to_tenant succeeds and leaves exactly one membership row for the
\* pair: it creates the row when there is none and changes nothing when there
\* is one
C24_OneMembership ==
  [][\A t \in tenants :
       add_to_tenant(t) =>
         /\ result'.status = "ok"
         /\ Cardinality(MembershipsOf(t.pk)') = 1
         /\ (MembershipsOf(t.pk) # {} => memberships' = memberships)]_vars

----------------------------------------------------------------------------
(* Permissions of the user, cached on the user object *)

\* Permission.objects.all(): p4 is held through no group
AllPerms == {"p1", "p2", "p3", "p4"}

Base == <<"b", "a", "s", "e">>
FromGroup == <<"g", "r", "o", "u", "p">>
FromUser == <<"u", "s", "e", "r">>
FromNames == {FromGroup, FromUser}
PermCacheSuffix == <<"_", "p", "e", "r", "m", "_", "c", "a", "c", "h", "e">>

\* str.replace('-.', '_'): every occurrence of the two characters "-." becomes "_"
RECURSIVE ReplaceDashDot(_)
ReplaceDashDot(s) ==
  IF Len(s) < 2 THEN s
  ELSE IF s[1] = "-" /\ s[2] = "."
  THEN <<"_">> \o ReplaceDashDot(SubSeq(s, 3, Len(s)))
  ELSE <<s[1]>> \o ReplaceDashDot(Tail(s))

\* re.sub(r'[-.]', '_', s): every "-" and every "." becomes "_"
SubDashDot(s) == [i \in 1..Len(s) |-> IF s[i] \in {"-", Dot} THEN "_" ELSE s[i]]

\* perm_cache_name of _get_permissions for the tenant with primary key tenant
\* (NoTenant: None)
GetPermissionsCacheName(from_name, tenant) ==
  LET tenant_name == IF tenant = NoTenant THEN Base
                     ELSE ReplaceDashDot(TenantDomain(TenantByPk(tenant)))
  IN <<"_">> \o from_name \o <<"_">> \o tenant_name \o PermCacheSuffix

\* perm_cache_name of get_all_permissions
AllPermissionsCacheName(tenant) ==
  LET tenant_name == IF tenant = NoTenant THEN Base
                     ELSE SubDashDot(TenantDomain(TenantByPk(tenant)))
  IN <<"_">> \o tenant_name \o PermCacheSuffix

\* ModelBackend.get_all_permissions keeps its result in user._perm_cache
DjangoCacheName == PermCacheSuffix

\* the tenant bound to the request being handled, if one is
Current == IF InFlight THEN response.tenant ELSE NoTenant

\* the permissions through the groups, as _get_group_permissions returns them
group_permissions ==
  LET tenant == get_current_no_request(request)
  IN UNION {PermsOfGroup[g] :
              g \in groups.user_groups
                \cup {tg.group : tg \in {x \in groups.tenant_groups :
                                            x.member /\ x.tenant = tenant}}}

\* ModelBackend._get_user_permissions: user.user_permissions, which nothing
\* in this program fills
user_permissions == {}

\* hasattr / setattr / getattr on the attribute name of the user object: the
\* stored value is returned when there is one, otherwise fresh is stored; each
\* stored value remembers the tenant that was current when it was stored
Cached(cache, name, fresh) ==
  IF name \in DOMAIN cache
  THEN [cache |-> cache, perms |-> cache[name].perms, under |-> cache[name].under, hit |-> TRUE]
  ELSE [cache |-> (name :> [perms |-> fresh, under |-> Current]) @@ cache,
        perms |-> fresh, under |-> Current, hit |-> FALSE]

\* the body of _get_permissions after the test of is_active, on the attributes
\* given
PermissionsFrom(cache, from_name) ==
  Cached(cache, GetPermissionsCacheName(from_name, get_current_no_request(request)),
         IF user.is_superuser THEN AllPerms
         ELSE IF from_name = FromGroup THEN group_permissions ELSE user_permissions)

\* TenantModelBackend._get_permissions(user, None, from_name)
_get_permissions(from_name) ==
  /\ IF is_active.status # "ok"
     THEN /\ result' = [NoResult EXCEPT !.op = "_get_permissions", !.status = is_active.status]
          /\ UNCHANGED user
     ELSE IF ~is_active.value
     THEN /\ result' = [NoResult EXCEPT !.op = "_get_permissions", !.status = "ok"]
          /\ UNCHANGED user
     ELSE LET c == PermissionsFrom(user.perm_cache, from_name)
          IN /\ result' = [NoResult EXCEPT !.op = "_get_permissions", !.status = "ok",
                                           !.perms = c.perms, !.tenant = c.under, !.hit = c.hit]
             /\ user' = [user EXCEPT !.perm_cache = c.cache]
  /\ UNCHANGED <<sites, tenants, aliases, nextPk, TENANT_CACHE, request, response,
                 stuff, instance, groups, memberships, resolver, updates>>

\* ModelBackend.get_all_permissions(user), which get_all_permissions calls
\* through super(): the user permissions and the group permissions, each through
\* _get_permissions, kept in user._perm_cache
SuperAllPermissions(cache) ==
  IF DjangoCacheName \in DOMAIN cache
  THEN Cached(cache, DjangoCacheName, {})
  ELSE LET u == PermissionsFrom(cache, FromUser)
           g == PermissionsFrom(u.cache, FromGroup)
       IN Cached(g.cache, DjangoCacheName, u.perms \cup g.perms)

\* TenantModelBackend.get_all_permissions(user)
get_all_permissions ==
  /\ IF is_active.status # "ok"
     THEN /\ result' = [NoResult EXCEPT !.op = "get_all_permissions", !.status = is_active.status]
          /\ UNCHANGED user
     ELSE IF ~is_active.value
     THEN /\ result' = [NoResult EXCEPT !.op = "get_all_permissions", !.status = "ok"]
          /\ UNCHANGED user
     ELSE LET name == AllPermissionsCacheName(get_current_no_request(request))
              c == IF name \in DOMAIN user.perm_cache
                   THEN Cached(user.perm_cache, name, {})
                   ELSE LET s == SuperAllPermissions(user.perm_cache)
                        IN Cached(s.cache, name, s.perms)
          IN /\ result' = [NoResult EXCEPT !.op = "get_all_permissions", !.status = "ok",
                                           !.perms = c.perms, !.tenant = c.under, !.hit = c.hit]
             /\ user' = [user EXCEPT !.perm_cache = c.cache]
  /\ UNCHANGED <<sites, tenants, aliases, nextPk, TENANT_CACHE, request, response,
                 stuff, instance, groups, memberships, resolver, updates>>

\* the user object of the next request: loaded anew, nothing cached on it
LoadUser ==
  /\ user.perm_cache # << >>
  /\ user' = [user EXCEPT !.perm_cache = << >>]
  /\ UNCHANGED <<sites, tenants, aliases, nextPk, TENANT_CACHE, request, response,
                 appvars, memberships, resolver, updates>>

\* the canonical domains of the tenants whose permissions are looked up
PermDomains == {DomA, DomB}

NextPerm ==
  \/ \E d \in PermDomains : create_site(d)
  \/ \E h \in AppHosts : process_request(h, OtherPath, TRUE, NoQuery)
  \/ \E g \in AdminGroups : AddToGroup(g)
  \/ \E g \in AdminGroups, t \in tenants : AddTenantGroup(g, t, TRUE)
  \/ \E a \in BOOLEAN, su \in BOOLEAN : SetFlags(a, FALSE, su)
  \/ \E t \in tenants, a \in BOOLEAN : SaveMembership(t, a, FALSE)
  \/ \E f \in FromNames : _get_permissions(f)
  \/ get_all_permissions
  \/ LoadUser

SpecPerm == Init /\ [][NextPerm]_vars

\* C22: while a request is being handled, a permission lookup for a user whose
\* superuser flag is set (and whose global active flag is true) succeeds and
\* returns every permission there is, whatever the tenant and whatever the
\* membership rows of the user
C22_SuperuserAll ==
  [][(/\ (get_all_permissions \/ \E f \in FromNames : _get_permissions(f))
      /\ InFlight /\ user.is_superuser /\ user._is_active)
       => (result'.status = "ok" /\ result'.perms = AllPerms)]_vars

\* C23: a permission result that was stored on the user object while a request
\* of tenant A was being handled is returned from the cache only by lookups made
\* while A is the current tenant, never by a lookup made while a request of
\* another tenant B is being handled: the cache names of A and B differ
C23_KeyedByTenant ==
  [][(/\ (get_all_permissions \/ \E f \in FromNames : _get_permissions(f))
      /\ InFlight /\ result'.status = "ok" /\ result'.hit /\ result'.tenant # NoTenant)
       => result'.tenant = response.tenant]_vars

----------------------------------------------------------------------------
(* The middleware in front of the root site *)

NextRoot ==
  \/ \E d \in MwCanonical : create_site(d)
  \/ \E d \in MwCanonical : create_root_site(d)
  \/ \E h \in MwHosts, p \in Paths, s \in BOOLEAN : process_request(h, p, s, NoQuery)

SpecRoot == Init /\ [][NextRoot]_vars

\* C25: a request for the administrative path that the middleware passes on
\* for the root site goes on with another path, the super-admin path; a request
\* passed on for a tenant that is not the root site goes on with the path it
\* came with
C25_RootPathRewritten ==
  InFlight =>
    IF Resolved.is_root_site
    THEN StartsWith(request.path, AdminPath) => response.path # request.path
    ELSE response.path = request.path

----------------------------------------------------------------------------
(* Deletion of a tenant *)

\* host resolves from the store: the matcher finds a tenant, or the query of
\* the cached manager lookup does
StoreResolves(h) ==
  \/ match_site_to_request(h).status = "ok"
  \/ QueryGet(TenantRows(CacheKey(h))).status = "ok"

\* C26: tenant.delete() leaves no alias of the tenant and no alias without
\* tenant, and afterwards no host that was the canonical domain or an alias of
\* the tenant resolves from the store
C26_DeleteCascades ==
  [][\A t \in tenants :
       DeleteTenant(t) =>
         /\ aliases' \cap AliasesOf(t) = {}
         /\ \A a \in aliases' : \E x \in tenants' : x.pk = a.tenant
         /\ \A d \in DomainsOf(t) : ~StoreResolves(d)']_vars

----------------------------------------------------------------------------
(* Creation with observers of the two hooks *)

\* TenantManager._create_site with receivers connected to pre_tenant_create
\* and post_tenant_create, of which the first raises when pre_raises and the
\* second when post_raises.  Signal.send lets the exception of a receiver
\* propagate, and nothing here catches it or runs in a transaction: when the
\* receiver of pre_tenant_create raises, the Site is saved and tenant.save()
\* is not reached; when the receiver of post_tenant_create raises, both rows
\* are saved and the caller gets the exception.
create_observed(domain, is_root, pre_raises, post_raises) ==
  /\ nextPk.site <= MaxSites
  /\ IF domain = EmptyStr
     THEN /\ Done("create_observed", "ValueError")
          /\ UNCHANGED <<sites, tenants, aliases, nextPk, TENANT_CACHE>>
     ELSE IF \E s \in sites : s.domain = domain
     THEN /\ Done("create_observed", "IntegrityError")
          /\ UNCHANGED <<sites, tenants, aliases, nextPk, TENANT_CACHE>>
     ELSE IF pre_raises
     THEN /\ sites' = sites \cup {[pk |-> nextPk.site, domain |-> domain]}
          /\ nextPk' = [nextPk EXCEPT !.site = @ + 1]
          /\ Done("create_observed", "ObserverError")
          /\ UNCHANGED <<tenants, aliases, TENANT_CACHE>>
     ELSE /\ sites' = sites \cup {[pk |-> nextPk.site, domain |-> domain]}
          /\ tenants' = tenants \cup {[pk |-> nextPk.tenant, site |-> nextPk.site,
                                       preferred_domain |-> None, is_root_site |-> is_root]}
          /\ nextPk' = [nextPk EXCEPT !.site = @ + 1, !.tenant = @ + 1]
          /\ Done("create_observed", IF post_raises THEN "ObserverError" ELSE "ok")
          /\ UNCHANGED <<aliases, TENANT_CACHE>>

\* the domains of the tenants created with observers
HookDomains == {DomA, DomB, DomC}

NextHooks ==
  \/ \E d \in HookDomains \cup {EmptyStr}, r \in BOOLEAN, pre \in BOOLEAN, post \in BOOLEAN :
       create_observed(d, r, pre, post)
  \/ \E t \in tenants : DeleteTenant(t)
  \/ \E h \in AppHosts : MatchSite(h)

SpecHooks == Init /\ [][NextHooks]_vars

\* the domain and root checks pass for a creation with this domain
ChecksPass(d, is_root) ==
  /\ DomainValid(d)
  /\ \A s \in sites : ~IExact(s.domain, d)
  /\ \A a \in aliases : ~IExact(a.domain, d)
  /\ is_root => \A t \in tenants : ~t.is_root_site

\* C27: a creation whose domain and root checks pass leaves the new tenant,
\* with its domain, in the store, whether or not an observer of
\* pre_tenant_create or of post_tenant_create fails
C27_ObserverFailureKeepsTenant ==
  [][\A d \in HookDomains, r \in BOOLEAN, pre \in BOOLEAN, post \in BOOLEAN :
       (create_observed(d, r, pre, post) /\ ChecksPass(d, r)) =>
         \E t \in tenants' \ tenants :
           \E s \in sites' : s.pk = t.site /\ s.domain = d]_vars

----------------------------------------------------------------------------
(* A lookup of the tenant cache, statement by statement, next to evictions *)

\* the dict of TENANT_CACHE that holds the keys of this kind
CacheOf(kind) == IF kind = "pk" THEN TENANT_CACHE.pk ELSE TENANT_CACHE.domain

\* _get_tenant_by_request (kind "domain", key the domain of the request) or
\* _get_tenant_by_id (kind "pk") is called in a thread
ResolveStart(kind, key) ==
  /\ resolver.pc \in {"idle", "done"}
  /\ resolver' = [NoResolver EXCEPT !.pc = "check", !.kind = kind, !.key = key]
  /\ UNCHANGED <<sites, tenants, aliases, nextPk, TENANT_CACHE, request, response,
                 appvars, user, memberships, updates>>

\* if key not in TENANT_CACHE
ResolveCheck ==
  /\ resolver.pc = "check"
  /\ resolver' = IF resolver.key \in DOMAIN CacheOf(resolver.kind)
                 THEN [resolver EXCEPT !.pc = "read", !.old = CacheOf(resolver.kind)[resolver.key]]
                 ELSE [resolver EXCEPT !.pc = "query"]
  /\ UNCHANGED <<sites, tenants, aliases, nextPk, TENANT_CACHE, request, response,
                 appvars, user, memberships, updates>>

\* self.get(...): the query of the store; DoesNotExist and
\* MultipleObjectsReturned leave the method
ResolveQuery ==
  /\ resolver.pc = "query"
  /\ LET got == IF resolver.kind = "pk"
                THEN IF resolver.key \in TenantPks
                     THEN [status |-> "ok", tenant |-> resolver.key]
                     ELSE [status |-> "DoesNotExist", tenant |-> NoTenant]
                ELSE QueryGet(TenantRows(resolver.key))
     IN resolver' = IF got.status = "ok"
                    THEN [resolver EXCEPT !.pc = "insert", !.fetched = got.tenant]
                    ELSE [resolver EXCEPT !.pc = "done", !.status = got.status]
  /\ UNCHANGED <<sites, tenants, aliases, nextPk, TENANT_CACHE, request, response,
                 appvars, user, memberships, updates>>

\* TENANT_CACHE[key] = tenant, on the dict that the global names now
ResolveInsert ==
  /\ resolver.pc = "insert"
  /\ TENANT_CACHE' = IF resolver.kind = "pk"
                     THEN [TENANT_CACHE EXCEPT !.pk = (resolver.key :> resolver.fetched) @@ @]
                     ELSE [TENANT_CACHE EXCEPT !.domain = (resolver.key :> resolver.fetched) @@ @]
  /\ resolver' = [resolver EXCEPT !.pc = "read"]
  /\ UNCHANGED <<sites, tenants, aliases, nextPk, request, response,
                 appvars, user, memberships, updates>>

\* return TENANT_CACHE[key], on the dict that the global names now: KeyError
\* when the key is not in it
ResolveRead ==
  /\ resolver.pc = "read"
  /\ resolver' = IF resolver.key \in DOMAIN CacheOf(resolver.kind)
                 THEN [resolver EXCEPT !.pc = "done", !.status = "ok",
                                       !.tenant = CacheOf(resolver.kind)[resolver.key]]
                 ELSE [resolver EXCEPT !.pc = "done", !.status = "KeyError"]
  /\ UNCHANGED <<sites, tenants, aliases, nextPk, TENANT_CACHE, request, response,
                 appvars, user, memberships, updates>>

\* the domains of the tenants and the keys looked up next to the evictions
RaceDomains == {DomA, DomB}

NextRace ==
  \/ \E d \in RaceDomains : create_site(d)
  \/ \E s \in sites : DeleteSite(s)
  \/ \E t \in tenants : DeleteTenant(t)
  \/ clear_cache
  \/ \E d \in RaceDomains : ResolveStart("domain", d)
  \/ \E k \in 1..MaxSites : ResolveStart("pk", k)
  \/ ResolveCheck
  \/ ResolveQuery
  \/ ResolveInsert
  \/ ResolveRead

SpecRace == Init /\ [][NextRace]_vars

\* C28: a lookup that has returned, whatever evictions ran between its steps,
\* has returned the tenant it found cached or the tenant of its store lookup,
\* or has found no tenant; it has not failed on a missing cache key
C28_ResolveUnderEviction ==
  resolver.pc = "done" =>
    \/ resolver.status = "DoesNotExist"
    \/ /\ resolver.status = "ok"
       /\ resolver.tenant \in {resolver.old, resolver.fetched} \ {NoTenant}

----------------------------------------------------------------------------
(* Two threads that make a tenant the root site *)

\* thread p loads tenant t into the admin form and sets is_root_site = True
UpdateStart(p, t) ==
  /\ updates[p].pc \in {"idle", "done"}
  /\ t \in tenants
  /\ ~t.is_root_site
  /\ updates' = [updates EXCEPT ![p] = [pc |-> "check", pk |-> t.pk, status |-> "none"]]
  /\ UNCHANGED <<sites, tenants, aliases, nextPk, TENANT_CACHE, request, response,
                 appvars, user, memberships, resolver>>

\* full_clean() of thread p: clean_fields reads the stored root tenant
UpdateCheck(p) ==
  /\ updates[p].pc = "check"
  /\ LET status == clean_fields(updates[p].pk, TRUE)
     IN updates' = [updates EXCEPT ![p] = IF status = "ok"
                                          THEN [@ EXCEPT !.pc = "save"]
                                          ELSE [@ EXCEPT !.pc = "done", !.status = status]]
  /\ UNCHANGED <<sites, tenants, aliases, nextPk, TENANT_CACHE, request, response,
                 appvars, user, memberships, resolver>>

\* save() of thread p: the row is written; nothing is read again, and neither
\* a transaction nor a constraint covers is_root_site
UpdateSave(p) ==
  /\ updates[p].pc = "save"
  /\ tenants' = {IF t.pk = updates[p].pk THEN [t EXCEPT !.is_root_site = TRUE] ELSE t : t \in tenants}
  /\ updates' = [updates EXCEPT ![p] = [@ EXCEPT !.pc = "done", !.status = "ok"]]
  /\ UNCHANGED <<sites, aliases, nextPk, TENANT_CACHE, request, response,
                 appvars, user, memberships, resolver>>

\* the domains of the tenants that the threads edit
AtomicDomains == {DomA, DomB, DomC}

NextAtomic ==
  \/ \E d \in AtomicDomains : create_site(d)
  \/ \E p \in Procs, t \in tenants : UpdateStart(p, t)
  \/ \E p \in Procs : UpdateCheck(p)
  \/ \E p \in Procs : UpdateSave(p)

SpecAtomic == Init /\ [][NextAtomic]_vars

\* C29: of the threads that set is_root_site on different tenants at most one
\* has succeeded, and at most one tenant is the root site, however the checks
\* and the writes of the threads interleave
C29_RootCheckAtomic ==
  /\ Cardinality({updates[p].pk : p \in {q \in Procs : updates[q].status = "ok"}}) <= 1
  /\ Cardinality({t \in tenants : t.is_root_site}) <= 1

----------------------------------------------------------------------------
(* Following the redirect of the middleware *)

\* the hosts of the requests and of the requests that follow a redirect
FollowHosts == {DomA, DomB, DomBUp, DomB \o Port8}

NextFollow ==
  \/ \E d \in MwCanonical : create_site(d)
  \/ \E t \in tenants, d \in MwAliases : SaveAlias(t, d)
  \/ \E t \in tenants, d \in MwPreferred : UpdateTenant(t, d, t.is_root_site)
  \/ \E h \in FollowHosts, p \in Paths, s \in BOOLEAN : process_request(h, p, s, NoQuery)

SpecFollow == Init /\ [][NextFollow]_vars

\* the preferred domain of the tenant is empty, or is its canonical domain or
\* one of its aliases, in any letter case
PreferredOwned(t) ==
  \/ t.preferred_domain \in {None, EmptyStr}
  \/ \E d \in DomainsOf(t) : IExact(t.preferred_domain, d)

\* C30: when the middleware has redirected a request of a tenant whose
\* preferred domain is empty or one of its own domains, the request that
\* follows the redirect (HTTPS, the public domain as host, same path and
\* query) is passed on, not redirected again and not refused
C30_NoRedirectLoop ==
  [][(/\ request.op = "process_request"
      /\ response.status = "redirect"
      /\ PreferredOwned(Resolved)
      /\ process_request(public_domain(Resolved), request.path, TRUE, request.GET))
       => response'.status = "forwarded"]_vars

====
